---- MODULE Spec2Model ----
(***************************************************************************)
(* State-machine model of the skincare consultation chatbot engine         *)
(* (backend/api/chatbot.py): the session store, the per-message pipeline   *)
(* extract_entities -> update_profile -> _generate_response ->             *)
(* _update_state, the recommendation engine and the HTTP endpoints.        *)
(*                                                                         *)
(* Text is modelled as a sequence of one-character strings so that         *)
(* lower-casing, substring tests, strip() and the age regular expressions  *)
(* are computed on the characters, as the code computes them.              *)
(***************************************************************************)
EXTENDS Integers, Sequences, FiniteSets, TLC

\* Python's None.
None == "None"

(***************************************************************************)
(* Characters and strings                                                  *)
(***************************************************************************)
UpperLetters ==
  << "A","B","C","D","E","F","G","H","I","J","K","L","M",
     "N","O","P","Q","R","S","T","U","V","W","X","Y","Z" >>

LowerLetters ==
  << "a","b","c","d","e","f","g","h","i","j","k","l","m",
     "n","o","p","q","r","s","t","u","v","w","x","y","z" >>

DigitChars == << "0","1","2","3","4","5","6","7","8","9" >>

IsUpper(c) == \E k \in 1..26 : UpperLetters[k] = c

IsLower(c) == \E k \in 1..26 : LowerLetters[k] = c

\* str.isdigit() on one character.
IsDigit(c) == \E k \in 1..10 : DigitChars[k] = c

DigitVal(c) == (CHOOSE k \in 1..10 : DigitChars[k] = c) - 1

\* \s of the re module and the characters str.strip() removes.
IsSpace(c) == c \in {" ", "\t", "\n"}

\* \w of the re module.
IsWord(c) == IsUpper(c) \/ IsLower(c) \/ IsDigit(c) \/ c = "_"

LowerChar(c) == IF IsUpper(c) THEN LowerLetters[CHOOSE k \in 1..26 : UpperLetters[k] = c] ELSE c

UpperChar(c) == IF IsLower(c) THEN UpperLetters[CHOOSE k \in 1..26 : LowerLetters[k] = c] ELSE c

\* str.lower()
RECURSIVE ToLower(_)
ToLower(t) == IF t = << >> THEN << >> ELSE << LowerChar(Head(t)) >> \o ToLower(Tail(t))

\* str.capitalize(): first character upper-cased, the rest lower-cased.
Capitalize(t) == IF t = << >> THEN << >> ELSE << UpperChar(Head(t)) >> \o ToLower(Tail(t))

\* pat occurs in t starting at position i.
MatchAt(pat, t, i) ==
  /\ i >= 1
  /\ i + Len(pat) - 1 <= Len(t)
  /\ \A k \in 1..Len(pat) : t[i + k - 1] = pat[k]

\* Python's `pat in t` on strings.
Contains(pat, t) == \E i \in 1..(Len(t) + 1) : MatchAt(pat, t, i)

\* any(p in t for p in patterns)
ContainsAny(patterns, t) == \E k \in 1..Len(patterns) : Contains(patterns[k], t)

\* len(t.strip()): the length left after removing leading and trailing whitespace.
RECURSIVE StripLen(_)
StripLen(t) ==
  IF t = << >> THEN 0
  ELSE IF IsSpace(Head(t)) THEN StripLen(Tail(t))
  ELSE IF IsSpace(t[Len(t)]) THEN StripLen(SubSeq(t, 1, Len(t) - 1))
  ELSE Len(t)

\* any(char.isdigit() for char in t)
HasDigit(t) == \E i \in 1..Len(t) : IsDigit(t[i])

(***************************************************************************)
(* The re module, as far as the engine's patterns use it                   *)
(***************************************************************************)
WordAt(t, i) == i >= 1 /\ i <= Len(t) /\ IsWord(t[i])

\* \b between t[i-1] and t[i].
Boundary(t, i) == WordAt(t, i - 1) # WordAt(t, i)

DigitAt(t, i) == i >= 1 /\ i <= Len(t) /\ IsDigit(t[i])

\* The position after a greedy \s* that starts at i.
RECURSIVE SkipSpace(_, _)
SkipSpace(t, i) == IF i <= Len(t) /\ IsSpace(t[i]) THEN SkipSpace(t, i + 1) ELSE i

\* The position after a mandatory \s+ that starts at i, 0 when there is no whitespace at i.
SkipSpace1(t, i) == IF i <= Len(t) /\ IsSpace(t[i]) THEN SkipSpace(t, i + 1) ELSE 0

\* The position after an optional literal character c? at i (greedy).
SkipOpt(c, t, i) == IF i <= Len(t) /\ t[i] = c THEN i + 1 ELSE i

\* A failed match; a successful one is [cap |-> captured text, end |-> position after the match].
NoMatch == [cap |-> << >>, end |-> 0]

\* The greedy \d{1,2} at i captures two digits when two are there (the
\* patterns that use it continue with a non-digit, so backtracking to one
\* digit never produces a match).
Digits12End(t, i) == IF DigitAt(t, i + 1) THEN i + 2 ELSE i + 1

\* findall(): the captures of the non-overlapping matches, scanning left to
\* right; at[i] is the match that starts at position i.
RECURSIVE FindAllFrom(_, _, _)
FindAllFrom(at, n, i) ==
  IF i > n THEN << >>
  ELSE IF at[i].end # 0 THEN << at[i].cap >> \o FindAllFrom(at, n, at[i].end)
  ELSE FindAllFrom(at, n, i + 1)

FindAll(at, t) == FindAllFrom(at, Len(t), 1)

\* r"\b(\d{1,2})\s*years?\s*old\b"
AgeYearsAt(t, i) ==
  LET e1 == Digits12End(t, i)
      a  == SkipSpace(t, e1)
      b  == SkipOpt("s", t, a + 4)
      c  == SkipSpace(t, b)
  IN  IF /\ Boundary(t, i)
         /\ DigitAt(t, i)
         /\ MatchAt(<<"y","e","a","r">>, t, a)
         /\ MatchAt(<<"o","l","d">>, t, c)
         /\ Boundary(t, c + 3)
      THEN [cap |-> SubSeq(t, i, e1 - 1), end |-> c + 3]
      ELSE NoMatch

\* r"\b(\d{1,2})\s*y/?o\b"
AgeYoAt(t, i) ==
  LET e1 == Digits12End(t, i)
      a  == SkipSpace(t, e1)
      b  == SkipOpt("/", t, a + 1)
  IN  IF /\ Boundary(t, i)
         /\ DigitAt(t, i)
         /\ MatchAt(<<"y">>, t, a)
         /\ MatchAt(<<"o">>, t, b)
         /\ Boundary(t, b + 1)
      THEN [cap |-> SubSeq(t, i, e1 - 1), end |-> b + 1]
      ELSE NoMatch

\* r"\bunder\s*(\d{2})\b"
AgeUnderAt(t, i) ==
  LET a == SkipSpace(t, i + 5)
  IN  IF /\ Boundary(t, i)
         /\ MatchAt(<<"u","n","d","e","r">>, t, i)
         /\ DigitAt(t, a) /\ DigitAt(t, a + 1)
         /\ Boundary(t, a + 2)
      THEN [cap |-> SubSeq(t, a, a + 1), end |-> a + 2]
      ELSE NoMatch

\* r"\b(\d{2})-(\d{2})\b": findall yields the pair of groups.
AgeRangeAt(t, i) ==
  IF /\ Boundary(t, i)
     /\ DigitAt(t, i) /\ DigitAt(t, i + 1)
     /\ MatchAt(<<"-">>, t, i + 2)
     /\ DigitAt(t, i + 3) /\ DigitAt(t, i + 4)
     /\ Boundary(t, i + 5)
  THEN [cap |-> << SubSeq(t, i, i + 1), SubSeq(t, i + 3, i + 4) >>, end |-> i + 5]
  ELSE NoMatch

\* r"\b(\d{2})s\b"
AgeDecadeAt(t, i) ==
  IF /\ Boundary(t, i)
     /\ DigitAt(t, i) /\ DigitAt(t, i + 1)
     /\ MatchAt(<<"s">>, t, i + 2)
     /\ Boundary(t, i + 3)
  THEN [cap |-> SubSeq(t, i, i + 1), end |-> i + 3]
  ELSE NoMatch

\* int() of a string of decimal digits.
RECURSIVE ParseInt(_)
ParseInt(ds) ==
  IF ds = << >> THEN 0
  ELSE 10 * ParseInt(SubSeq(ds, 1, Len(ds) - 1)) + DigitVal(ds[Len(ds)])

(***************************************************************************)
(* The keyword dictionaries of _initialize_nlp_patterns                    *)
(***************************************************************************)
\* nlp_patterns["skin_types"], in dict order
SkinTypePatterns ==
  << [label |-> "oily", patterns |->
       << <<"o","i","l","y">>,
          <<"g","r","e","a","s","y">>,
          <<"s","h","i","n","y">>,
          <<"s","e","b","u","m">> >>],
     [label |-> "dry", patterns |->
       << <<"d","r","y">>,
          <<"f","l","a","k","y">>,
          <<"d","e","h","y","d","r","a","t","e","d">>,
          <<"t","i","g","h","t">> >>],
     [label |-> "combination", patterns |->
       << <<"c","o","m","b","i","n","a","t","i","o","n">>,
          <<"m","i","x","e","d">>,
          <<"c","o","m","b","o">>,
          <<"t","-","z","o","n","e">> >>],
     [label |-> "normal", patterns |->
       << <<"n","o","r","m","a","l">>,
          <<"b","a","l","a","n","c","e","d">>,
          <<"r","e","g","u","l","a","r">> >>],
     [label |-> "sensitive", patterns |->
       << <<"s","e","n","s","i","t","i","v","e">>,
          <<"r","e","a","c","t","i","v","e">>,
          <<"i","r","r","i","t","a","t","e","d">>,
          <<"r","e","d">> >>] >>

\* nlp_patterns["concerns"], in dict order
ConcernPatterns ==
  << [label |-> "acne", patterns |->
       << <<"a","c","n","e">>,
          <<"p","i","m","p","l","e","s">>,
          <<"b","r","e","a","k","o","u","t","s">>,
          <<"z","i","t","s">>,
          <<"b","l","a","c","k","h","e","a","d","s">>,
          <<"w","h","i","t","e","h","e","a","d","s">> >>],
     [label |-> "aging", patterns |->
       << <<"w","r","i","n","k","l","e","s">>,
          <<"f","i","n","e"," ","l","i","n","e","s">>,
          <<"a","g","i","n","g">>,
          <<"a","n","t","i","-","a","g","i","n","g">>,
          <<"c","r","o","w","'","s"," ","f","e","e","t">> >>],
     [label |-> "pigmentation", patterns |->
       << <<"d","a","r","k"," ","s","p","o","t","s">>,
          <<"h","y","p","e","r","p","i","g","m","e","n","t","a","t","i","o","n">>,
          <<"m","e","l","a","s","m","a">>,
          <<"s","u","n"," ","s","p","o","t","s">>,
          <<"a","g","e"," ","s","p","o","t","s">> >>],
     [label |-> "pores", patterns |->
       << <<"l","a","r","g","e"," ","p","o","r","e","s">>,
          <<"p","o","r","e","s">>,
          <<"e","n","l","a","r","g","e","d"," ","p","o","r","e","s">>,
          <<"v","i","s","i","b","l","e"," ","p","o","r","e","s">> >>],
     [label |-> "redness", patterns |->
       << <<"r","e","d","n","e","s","s">>,
          <<"r","o","s","a","c","e","a">>,
          <<"i","n","f","l","a","m","m","a","t","i","o","n">>,
          <<"i","r","r","i","t","a","t","i","o","n">> >>],
     [label |-> "dullness", patterns |->
       << <<"d","u","l","l">>,
          <<"d","u","l","l","n","e","s","s">>,
          <<"l","a","c","k","l","u","s","t","e","r">>,
          <<"t","i","r","e","d"," ","s","k","i","n">> >>],
     [label |-> "dark_circles", patterns |->
       << <<"d","a","r","k"," ","c","i","r","c","l","e","s">>,
          <<"u","n","d","e","r"," ","e","y","e">>,
          <<"e","y","e"," ","b","a","g","s">>,
          <<"p","u","f","f","y"," ","e","y","e","s">> >>],
     [label |-> "texture", patterns |->
       << <<"t","e","x","t","u","r","e">>,
          <<"r","o","u","g","h">>,
          <<"b","u","m","p","y">>,
          <<"u","n","e","v","e","n">> >>] >>

\* nlp_patterns["products"], in dict order
ProductPatterns ==
  << [label |-> "cleanser", patterns |->
       << <<"c","l","e","a","n","s","e","r">>,
          <<"w","a","s","h">>,
          <<"c","l","e","a","n","s","i","n","g">>,
          <<"f","a","c","e"," ","w","a","s","h">> >>],
     [label |-> "moisturizer", patterns |->
       << <<"m","o","i","s","t","u","r","i","z","e","r">>,
          <<"c","r","e","a","m">>,
          <<"l","o","t","i","o","n">>,
          <<"h","y","d","r","a","t","o","r">> >>],
     [label |-> "serum", patterns |->
       << <<"s","e","r","u","m">>,
          <<"t","r","e","a","t","m","e","n","t">>,
          <<"e","s","s","e","n","c","e">>,
          <<"a","m","p","o","u","l","e">> >>],
     [label |-> "sunscreen", patterns |->
       << <<"s","u","n","s","c","r","e","e","n">>,
          <<"s","p","f">>,
          <<"s","u","n"," ","p","r","o","t","e","c","t","i","o","n">>,
          <<"s","u","n","b","l","o","c","k">> >>],
     [label |-> "toner", patterns |->
       << <<"t","o","n","e","r">>,
          <<"t","o","n","i","c">>,
          <<"a","s","t","r","i","n","g","e","n","t">> >>],
     [label |-> "exfoliant", patterns |->
       << <<"e","x","f","o","l","i","a","n","t">>,
          <<"s","c","r","u","b">>,
          <<"p","e","e","l">>,
          <<"a","h","a">>,
          <<"b","h","a">> >>],
     [label |-> "mask", patterns |->
       << <<"m","a","s","k">>,
          <<"f","a","c","e"," ","m","a","s","k">>,
          <<"s","h","e","e","t"," ","m","a","s","k">> >>],
     [label |-> "eye_cream", patterns |->
       << <<"e","y","e"," ","c","r","e","a","m">>,
          <<"e","y","e"," ","s","e","r","u","m">>,
          <<"e","y","e"," ","t","r","e","a","t","m","e","n","t">> >>] >>

(***************************************************************************)
(* Entity extraction                                                       *)
(***************************************************************************)
\* A variant of MatchedLabels that lists a label once for each of its
\* synonyms found in t.
MatchedLabels_per_synonym(table, t) ==
  LET RECURSIVE Syn(_, _)
      Syn(k, j) == IF j > Len(table[k].patterns) THEN << >>
                   ELSE (IF Contains(table[k].patterns[j], t) THEN << table[k].label >> ELSE << >>)
                        \o Syn(k, j + 1)
      RECURSIVE From(_)
      From(k) == IF k > Len(table) THEN << >> ELSE Syn(k, 1) \o From(k + 1)
  IN  From(1)

\* The labels of a dictionary, in dict order, that have a synonym in t.
MatchedLabels(table, t) ==
  LET hit(k) == ContainsAny(table[k].patterns, t)
      RECURSIVE From(_)
      From(k) == IF k > Len(table) THEN << >>
                 ELSE (IF hit(k) THEN << table[k].label >> ELSE << >>) \o From(k + 1)
  IN  From(1)

\* extract_entities: a key of the returned dict is present exactly when its
\* list is non-empty, so the dict is the record of the seven lists.
extract_entities(text) ==
  LET text_lower == ToLower(text)
      pos == 1..Len(text_lower)
  IN  [ skin_type  |-> MatchedLabels(SkinTypePatterns, text_lower),
        concerns   |-> MatchedLabels(ConcernPatterns, text_lower),
        products   |-> MatchedLabels(ProductPatterns, text_lower),
        age        |-> FindAll([i \in pos |-> AgeYearsAt(text_lower, i)], text_lower)
                       \o FindAll([i \in pos |-> AgeYoAt(text_lower, i)], text_lower),
        age_under  |-> FindAll([i \in pos |-> AgeUnderAt(text_lower, i)], text_lower),
        age_range  |-> FindAll([i \in pos |-> AgeRangeAt(text_lower, i)], text_lower),
        age_decade |-> FindAll([i \in pos |-> AgeDecadeAt(text_lower, i)], text_lower) ]

(***************************************************************************)
(* The tests the handlers make on the raw message                          *)
(***************************************************************************)
GreetingWords ==
  << <<"h","i">>, <<"h","e","l","l","o">>, <<"n","a","m","e">>, <<"i","'","m">>,
     <<"i"," ","a","m">>, <<"c","a","l","l"," ","m","e">> >>

SkinTypeWords ==
  << <<"o","i","l","y">>, <<"d","r","y">>, <<"c","o","m","b","i","n","a","t","i","o","n">>,
     <<"n","o","r","m","a","l">>, <<"s","e","n","s","i","t","i","v","e">> >>

NoConcernWords ==
  << <<"n","o","n","e">>, <<"n","o","t","h","i","n","g">>,
     <<"n","o"," ","c","o","n","c","e","r","n","s">>, <<"g","o","o","d">>, <<"f","i","n","e">> >>

age_indicators ==
  << <<"t","e","e","n">>, <<"t","w","e","n","t","y">>, <<"t","h","i","r","t","y">>,
     <<"f","o","r","t","y">>, <<"f","i","f","t","y">>, <<"u","n","d","e","r">>,
     <<"o","v","e","r">>, <<"o","l","d">>, <<"a","g","e">> >>

\* The alternatives of (?:I'm|I am|my name is|call me), lower-cased for re.I.
NamePrefixes ==
  << <<"i","'","m">>,
     <<"i"," ","a","m">>,
     <<"m","y"," ","n","a","m","e"," ","i","s">>,
     <<"c","a","l","l"," ","m","e">> >>

\* The position after the greedy \w+ that starts at i.
RECURSIVE WordEnd(_, _)
WordEnd(t, i) == IF WordAt(t, i) THEN WordEnd(t, i + 1) ELSE i

\* r"(?:I'm|I am|my name is|call me)\s+(\w+)" with re.I, at position i of
\* the text t whose lower-cased form is lower.
NameAt(t, lower, i) ==
  LET start(k) == SkipSpace1(t, i + Len(NamePrefixes[k]))
      ok(k) == MatchAt(NamePrefixes[k], lower, i) /\ start(k) # 0 /\ WordAt(t, start(k))
  IN  IF \E k \in 1..Len(NamePrefixes) : ok(k)
      THEN LET k == CHOOSE k \in 1..Len(NamePrefixes) :
                      ok(k) /\ \A j \in 1..(k - 1) : ~ok(j)
           IN  [cap |-> SubSeq(t, start(k), WordEnd(t, start(k)) - 1),
                end |-> WordEnd(t, start(k))]
      ELSE NoMatch

\* re.search: the leftmost match, NoMatch when there is none.
RECURSIVE SearchFrom(_, _, _)
SearchFrom(at, n, i) ==
  IF i > n THEN NoMatch
  ELSE IF at[i].end # 0 THEN at[i]
  ELSE SearchFrom(at, n, i + 1)

Search(at, t) == SearchFrom(at, Len(t), 1)

name_match(message) ==
  LET lower == ToLower(message)
  IN  Search([i \in 1..Len(message) |-> NameAt(message, lower, i)], message)

\* greeting_patterns[0], searched with re.I
GreetingPhrases ==
  << <<"h","i">>,
     <<"h","e","l","l","o">>,
     <<"h","e","y">>,
     <<"g","o","o","d"," ","m","o","r","n","i","n","g">>,
     <<"g","o","o","d"," ","a","f","t","e","r","n","o","o","n">>,
     <<"g","o","o","d"," ","e","v","e","n","i","n","g">> >>

\* greeting_patterns[2], searched with re.I
HelpPhrases ==
  << <<"h","e","l","p">>,
     <<"a","d","v","i","c","e">>,
     <<"c","o","n","s","u","l","t","a","t","i","o","n">>,
     <<"s","k","i","n","c","a","r","e">> >>

AgeWords ==
  << <<"t","e","e","n">>,
     <<"t","w","e","n","t","y">>,
     <<"t","h","i","r","t","y">>,
     <<"f","o","r","t","y">>,
     <<"f","i","f","t","y">> >>

\* The for loop over age_patterns of the age_range branch: re.search of the
\* four patterns on message.lower().
age_found(message) ==
  LET lower == ToLower(message)
  IN  \E i \in 1..Len(lower) :
        \/ AgeYearsAt(lower, i).end # 0
        \/ AgeUnderAt(lower, i).end # 0
        \/ AgeRangeAt(lower, i).end # 0
        \/ AgeDecadeAt(lower, i).end # 0

HelpWords ==
  << <<"h","e","l","p">>,
     <<"w","h","a","t">>,
     <<"h","o","w">>,
     <<"w","h","y">>,
     <<"e","x","p","l","a","i","n">> >>

ProductWords ==
  << <<"p","r","o","d","u","c","t">>,
     <<"r","e","c","o","m","m","e","n","d">>,
     <<"s","u","g","g","e","s","t">>,
     <<"b","u","y">> >>

RoutineWords ==
  << <<"r","o","u","t","i","n","e">>,
     <<"s","t","e","p","s">>,
     <<"o","r","d","e","r">> >>

IngredientWords ==
  << <<"i","n","g","r","e","d","i","e","n","t">>,
     <<"c","h","e","m","i","c","a","l">>,
     <<"a","c","i","d">>,
     <<"r","e","t","i","n","o","l">>,
     <<"v","i","t","a","m","i","n">> >>

SkipWords ==
  << <<"s","k","i","p">>,
     <<"n","e","x","t">>,
     <<"c","o","n","t","i","n","u","e">>,
     <<"d","o","n","e">> >>

ResetWords ==
  << <<"s","t","a","r","t"," ","o","v","e","r">>,
     <<"r","e","s","t","a","r","t">>,
     <<"r","e","s","e","t">>,
     <<"b","e","g","i","n"," ","a","g","a","i","n">> >>

\* Everything the pipeline computes from the text of a message alone, each
\* field the expression of the source line named beside it.
MessageFacts(message) ==
  LET lower == ToLower(message)
      name  == name_match(message)
  IN  [ entities         |-> extract_entities(message),          \* process_message, 714
        strip_len        |-> StripLen(message),                   \* _update_state, 413/434/439
        greeting_word    |-> ContainsAny(GreetingWords, lower),   \* _update_state, 413
        skin_type_word   |-> ContainsAny(SkinTypeWords, lower),   \* _update_state, 418
        no_concern_word  |-> ContainsAny(NoConcernWords, lower),  \* _update_state, 423
        age_indicator    |-> ContainsAny(age_indicators, lower),  \* _update_state, 429
        has_digit        |-> HasDigit(message),                   \* _update_state, 429
        name_match       |-> name,                                \* _generate_response, 458
        greeting_pattern |-> \/ ContainsAny(GreetingPhrases, lower)
                             \/ name.end # 0
                             \/ ContainsAny(HelpPhrases, lower),  \* _generate_response, 466
        age_found        |-> age_found(message),                  \* _generate_response, 569-573
        age_word         |-> ContainsAny(AgeWords, lower),        \* _generate_response, 575
        help_word        |-> ContainsAny(HelpWords, lower),       \* _handle_general_input, 640
        product_word     |-> ContainsAny(ProductWords, lower),    \* 650
        routine_word     |-> ContainsAny(RoutineWords, lower),    \* 662
        ingredient_word  |-> ContainsAny(IngredientWords, lower), \* 668
        skip_word        |-> ContainsAny(SkipWords, lower),       \* 674
        reset_word       |-> ContainsAny(ResetWords, lower),      \* 680
        photo            |-> Contains(<<"p","h","o","t","o">>, lower) ]  \* process_message, 728


(***************************************************************************)
(* Texts                                                                   *)
(***************************************************************************)
\* "hi"
MsgHi ==
  <<"h","i">>

\* "I have oily skin with acne and large pores"
MsgOilyAcne ==
  <<"I"," ","h","a","v","e"," ","o","i","l","y"," ","s","k","i","n"," ","w","i","t","h"," ","a","c","n","e"," ","a","n","d"," ","l","a","r","g","e"," ","p","o","r","e","s">>

\* "start over"
MsgStartOver ==
  <<"s","t","a","r","t"," ","o","v","e","r">>

\* "Send PHOTO"
MsgPhoto ==
  <<"S","e","n","d"," ","P","H","O","T","O">>

\* "I am 45 years old, dry skin, wrinkles"
MsgDryAging45 ==
  <<"I"," ","a","m"," ","4","5"," ","y","e","a","r","s"," ","o","l","d",","," ","d","r","y"," ","s","k","i","n",","," ","w","r","i","n","k","l","e","s">>

\* " "
MsgBlank ==
  <<" ">>

\* "a b"
MsgAB ==
  <<"a"," ","b">>

\* "Oily skin"
MsgOily ==
  <<"O","i","l","y"," ","s","k","i","n">>

\* The texts a client sends.
Messages ==
  { MsgHi, MsgOilyAcne, MsgStartOver, MsgPhoto, MsgDryAging45, MsgBlank, MsgAB,
    MsgOily }

\* MessageFacts is a pure function of the text: its value for each text of
\* the model.
TextFacts == [message \in Messages |-> MessageFacts(message)]


(***************************************************************************)
(* Models (chatbot.py, "Models")                                           *)
(***************************************************************************)
\* The values of the enum ConversationState.
ConversationState ==
  { "greeting", "skin_type", "concerns", "age_range", "routine", "lifestyle",
    "budget", "allergies", "analysis", "recommendation", "followup" }

\* SkinProfile(): the fields the engine writes (lifestyle, budget, allergies
\* and preferences are declared but no code path assigns them).
SkinProfile ==
  [ skin_type |-> None, concerns |-> {}, age_range |-> None, current_routine |-> {} ]

\* A missing (None) text; a present one is a sequence of characters.
NoText == << None >>

\* ChatSession() with the identifier its default factory minted.  context is
\* the dict, of which only the key "name" is ever written (NoText: key
\* absent); recommendations defaults to the empty list.
ChatSession(id) ==
  [ session_id |-> id, state |-> "greeting", profile |-> SkinProfile,
    messages |-> << >>, context |-> [name |-> NoText], recommendations |-> << >> ]

\* ChatMessage(role, content), without the timestamp.
ChatMessage(role, content) == [role |-> role, content |-> content]

\* Truth value of an Optional[str].
Truthy(v) == v # None /\ v # ""

Range(s) == {s[k] : k \in 1..Len(s)}

(***************************************************************************)
(* Profile accumulation                                                    *)
(***************************************************************************)
\* A variant of AgeBucket whose brackets include their upper boundary.
AgeBucket_inclusive(age) ==
  IF age <= 20 THEN "under_20"
  ELSE IF age <= 30 THEN "20-30"
  ELSE IF age <= 40 THEN "30-40"
  ELSE IF age <= 50 THEN "40-50"
  ELSE "50+"

AgeBucket(age) ==
  IF age < 20 THEN "under_20"
  ELSE IF age < 30 THEN "20-30"
  ELSE IF age < 40 THEN "30-40"
  ELSE IF age < 50 THEN "40-50"
  ELSE "50+"

\* A variant of update_profile that drops the concerns the profile already
\* holds when they are detected again.
update_profile_toggling(profile, entities) ==
  [ skin_type |->
      IF entities.skin_type # << >> THEN entities.skin_type[1] ELSE profile.skin_type,
    concerns |-> (profile.concerns \cup Range(entities.concerns))
                   \ (profile.concerns \cap Range(entities.concerns)),
    current_routine |-> profile.current_routine \cup Range(entities.products),
    age_range |->
      IF (entities.age # << >> \/ entities.age_range # << >>) /\ entities.age # << >>
      THEN AgeBucket(ParseInt(entities.age[1]))
      ELSE profile.age_range ]

\* update_profile: the profile after the call.
update_profile(profile, entities) ==
  [ skin_type |->
      IF entities.skin_type # << >> THEN entities.skin_type[1] ELSE profile.skin_type,
    concerns |-> profile.concerns \cup Range(entities.concerns),
    current_routine |-> profile.current_routine \cup Range(entities.products),
    age_range |->
      IF (entities.age # << >> \/ entities.age_range # << >>) /\ entities.age # << >>
      THEN AgeBucket(ParseInt(entities.age[1]))
      ELSE profile.age_range ]

\* A variant of _is_profile_complete that looks at the skin type alone.
_is_profile_complete_skin_type_only(profile) == Truthy(profile.skin_type)

_is_profile_complete(profile) == Truthy(profile.skin_type) /\ profile.concerns # {}

(***************************************************************************)
(* Recommendation engine                                                   *)
(***************************************************************************)
_get_weekly_treatments(profile) ==
  (IF profile.skin_type = "oily" \/ "pores" \in profile.concerns
   THEN << "Clay mask" >> ELSE << >>)
  \o (IF profile.skin_type = "dry" \/ "dehydration" \in profile.concerns
      THEN << "Hydrating mask" >> ELSE << >>)
  \o (IF "texture" \in profile.concerns \/ "dullness" \in profile.concerns
      THEN << "Chemical exfoliant" >> ELSE << >>)

RoutineStep(n, type, text) == [step |-> n, product_type |-> type, recommendation |-> text]

\* A variant of generate_recommendations that keeps retinol for the age range
\* 50+ and gives dry skin the cleanser of the other skin types.
generate_recommendations_late_retinol(profile) ==
  LET cleanser ==
        IF profile.skin_type = "oily"
        THEN RoutineStep(1, "Cleanser", "Gel or foaming cleanser with salicylic acid")
        ELSE RoutineStep(1, "Cleanser", "Gentle gel cleanser")
      treatment ==
        IF "acne" \in profile.concerns
        THEN << RoutineStep(2, "Treatment", "BHA toner or serum") >>
        ELSE IF "aging" \in profile.concerns \/ "wrinkles" \in profile.concerns
        THEN << RoutineStep(2, "Serum", "Vitamin C serum") >>
        ELSE IF "pigmentation" \in profile.concerns
        THEN << RoutineStep(2, "Serum", "Brightening serum") >>
        ELSE << >>
      moisturizer ==
        IF profile.skin_type = "oily"
        THEN RoutineStep(3, "Moisturizer", "Lightweight gel moisturizer")
        ELSE RoutineStep(3, "Moisturizer", "Hydrating cream")
      sunscreen == RoutineStep(4, "Sunscreen", "Broad spectrum SPF 30+")
      evening ==
        IF profile.age_range = "50+"
        THEN << RoutineStep(2, "Retinol", "Start with 0.3% retinol") >>
        ELSE << >>
  IN  [ morning_routine   |-> << cleanser >> \o treatment \o << moisturizer, sunscreen >>,
        evening_routine   |-> evening,
        weekly_treatments |-> _get_weekly_treatments(profile) ]

\* generate_recommendations: each step with the step number the code writes into it.
generate_recommendations(profile) ==
  LET cleanser ==
        IF profile.skin_type = "oily"
        THEN RoutineStep(1, "Cleanser", "Gel or foaming cleanser with salicylic acid")
        ELSE IF profile.skin_type = "dry"
        THEN RoutineStep(1, "Cleanser", "Cream or milk cleanser")
        ELSE RoutineStep(1, "Cleanser", "Gentle gel cleanser")
      treatment ==
        IF "acne" \in profile.concerns
        THEN << RoutineStep(2, "Treatment", "BHA toner or serum") >>
        ELSE IF "aging" \in profile.concerns \/ "wrinkles" \in profile.concerns
        THEN << RoutineStep(2, "Serum", "Vitamin C serum") >>
        ELSE IF "pigmentation" \in profile.concerns
        THEN << RoutineStep(2, "Serum", "Brightening serum") >>
        ELSE << >>
      moisturizer ==
        IF profile.skin_type = "oily"
        THEN RoutineStep(3, "Moisturizer", "Lightweight gel moisturizer")
        ELSE RoutineStep(3, "Moisturizer", "Hydrating cream")
      sunscreen == RoutineStep(4, "Sunscreen", "Broad spectrum SPF 30+")
      evening ==
        IF profile.age_range \in {"30-40", "40-50", "50+"}
        THEN << RoutineStep(2, "Retinol", "Start with 0.3% retinol") >>
        ELSE << >>
  IN  [ morning_routine   |-> << cleanser >> \o treatment \o << moisturizer, sunscreen >>,
        evening_routine   |-> evening,
        weekly_treatments |-> _get_weekly_treatments(profile) ]

\* _format_recommendations raises AttributeError on profile.skin_type.capitalize()
\* when the skin type is None.
FormatRaises(profile) == profile.skin_type = None

\* services.product_service.recommend_products (the second definition of the
\* name replaces the first): the two default products, whatever the concerns.
recommend_products(concerns) == << "cleanser-1", "moisturizer-1" >>

\* seq[:n]
Take(seq, n) == SubSeq(seq, 1, IF Len(seq) < n THEN Len(seq) ELSE n)

(***************************************************************************)
(* Conversation state machine                                              *)
(***************************************************************************)
\* A variant of state_transitions whose entry for skin_type passes over concerns.
state_transitions_skipping ==
  [ s \in ConversationState \ {"recommendation", "followup"} |->
      CASE s = "greeting"  -> "skin_type"
        [] s = "skin_type" -> "age_range"
        [] s = "concerns"  -> "age_range"
        [] s = "age_range" -> "routine"
        [] s = "routine"   -> "lifestyle"
        [] s = "lifestyle" -> "budget"
        [] s = "budget"    -> "allergies"
        [] s = "allergies" -> "analysis"
        [] s = "analysis"  -> "followup" ]

state_transitions ==
  [ s \in ConversationState \ {"recommendation", "followup"} |->
      CASE s = "greeting"  -> "skin_type"
        [] s = "skin_type" -> "concerns"
        [] s = "concerns"  -> "age_range"
        [] s = "age_range" -> "routine"
        [] s = "routine"   -> "lifestyle"
        [] s = "lifestyle" -> "budget"
        [] s = "budget"    -> "allergies"
        [] s = "allergies" -> "analysis"
        [] s = "analysis"  -> "followup" ]

\* A variant of _update_state that starts the conversation again whenever the
\* completion predicate of the state fails.
_update_state_falling_back(state, profile, message) ==
  LET advance(text) ==
        CASE state = "greeting" -> text.greeting_word \/ text.strip_len > 0
          [] state = "skin_type" -> Truthy(profile.skin_type) \/ text.skin_type_word
          [] state = "concerns" -> profile.concerns # {} \/ text.no_concern_word
          [] state = "age_range" ->
               Truthy(profile.age_range) \/ text.age_indicator \/ text.has_digit
          [] state \in {"routine", "lifestyle", "budget"} -> text.strip_len > 2
          [] state = "allergies" -> text.strip_len > 0
          [] OTHER -> FALSE
  IN  IF advance(TextFacts[message]) THEN state_transitions[state]
      ELSE IF state = "analysis" THEN state ELSE "greeting"

\* _update_state: the state after the call; the chain of conditionals has a
\* branch for the states greeting .. allergies only.
_update_state(state, profile, message) ==
  LET advance(text) ==
        CASE state = "greeting" -> text.greeting_word \/ text.strip_len > 0
          [] state = "skin_type" -> Truthy(profile.skin_type) \/ text.skin_type_word
          [] state = "concerns" -> profile.concerns # {} \/ text.no_concern_word
          [] state = "age_range" ->
               Truthy(profile.age_range) \/ text.age_indicator \/ text.has_digit
          [] state \in {"routine", "lifestyle", "budget"} -> text.strip_len > 2
          [] state = "allergies" -> text.strip_len > 0
          [] OTHER -> FALSE
  IN  IF advance(TextFacts[message]) THEN state_transitions[state] ELSE state

(***************************************************************************)
(* Response generation                                                     *)
(***************************************************************************)

\* The number of characters of the literal text of each response template.
\* The interpolated values only add characters, so the rendered response is
\* at least this long.
ResponseLiteralLen ==
  [ greeting_named |-> 193, greeting_hello |-> 219, greeting_intro |-> 221,
    skin_type_ack |-> 177, skin_type_guide |-> 384,
    concerns_ack |-> 200, concerns_guide |-> 529,
    recommendations |-> 242,
    age_ack |-> 292, age_guide |-> 433,
    routine_ack |-> 275, lifestyle_ack |-> 226, budget_ack |-> 293, allergies_ack |-> 149,
    analyzing |-> 67,
    help |-> 272, products_later |-> 129, routine_later |-> 126, ingredients_later |-> 176,
    moving_on |-> 120, start_fresh |-> 94, guide |-> 105 ]

\* _handle_general_input: the reply and the session after the call.
_handle_general_input(session, message) ==
  LET kind(text) ==
        IF text.help_word THEN "help"
        ELSE IF text.product_word THEN "products_later"
        ELSE IF text.routine_word THEN "routine_later"
        ELSE IF text.ingredient_word THEN "ingredients_later"
        ELSE IF text.skip_word THEN "moving_on"
        ELSE IF text.reset_word THEN "start_fresh"
        ELSE "guide"
      reply(response) ==
        [ response |-> response,
          session  |-> IF response = "start_fresh"
                       THEN [session EXCEPT !.state = "greeting",
                                            !.profile = SkinProfile,
                                            !.context = [name |-> NoText]]
                       ELSE session ]
  IN  reply(kind(TextFacts[message]))

\* `not response or len(response) < 10`
TooShort(response) == ResponseLiteralLen[response] < 10

\* A variant of _generate_response that answers the allergies state with the
\* empty string and has no fallback.
_generate_response_unguarded(session, message, entities) ==
  LET state == session.state
      \* the response the branch of the state builds
      primary(text) ==
        CASE state = "greeting" ->
               IF text.name_match.end # 0 THEN "greeting_named"
               ELSE IF text.greeting_pattern THEN "greeting_hello"
               ELSE "greeting_intro"
          [] state = "skin_type" ->
               IF entities.skin_type # << >> THEN "skin_type_ack" ELSE "skin_type_guide"
          [] state = "concerns" ->
               IF entities.concerns # << >> THEN "concerns_ack" ELSE "concerns_guide"
          [] state = "analysis" -> "recommendations"
          [] state = "age_range" ->
               IF text.age_found \/ text.age_word THEN "age_ack" ELSE "age_guide"
          [] state = "routine"   -> "routine_ack"
          [] state = "lifestyle" -> "lifestyle_ack"
          [] state = "budget"    -> "budget_ack"
          [] state = "allergies" -> ""
          [] OTHER -> "analyzing"
      \* the session as the branch of the state leaves it
      after(text) ==
        CASE state = "greeting" /\ text.name_match.end # 0 ->
               [session EXCEPT !.context = [name |-> Capitalize(text.name_match.cap)]]
          [] state = "analysis" ->
               [session EXCEPT !.recommendations = generate_recommendations(session.profile)]
          [] OTHER -> session
      products ==
        IF state = "analysis"
        THEN Take(recommend_products(session.profile.concerns), 5)
        ELSE << >>
      \* the return, without the fallback
      return(response, s) ==
        IF state = "analysis" /\ FormatRaises(session.profile)
        THEN [ raised |-> TRUE, response |-> None, products |-> << >>, session |-> s ]
        ELSE [ raised |-> FALSE, response |-> response, products |-> products, session |-> s ]
      branch(text) == return(primary(text), after(text))
  IN  branch(TextFacts[message])

\* A variant of _generate_response that fetches the catalog products in every state.
_generate_response_products_always(session, message, entities) ==
  LET state == session.state
      \* the response the branch of the state builds
      primary(text) ==
        CASE state = "greeting" ->
               IF text.name_match.end # 0 THEN "greeting_named"
               ELSE IF text.greeting_pattern THEN "greeting_hello"
               ELSE "greeting_intro"
          [] state = "skin_type" ->
               IF entities.skin_type # << >> THEN "skin_type_ack" ELSE "skin_type_guide"
          [] state = "concerns" ->
               IF entities.concerns # << >> THEN "concerns_ack" ELSE "concerns_guide"
          [] state = "analysis" -> "recommendations"
          [] state = "age_range" ->
               IF text.age_found \/ text.age_word THEN "age_ack" ELSE "age_guide"
          [] state = "routine"   -> "routine_ack"
          [] state = "lifestyle" -> "lifestyle_ack"
          [] state = "budget"    -> "budget_ack"
          [] state = "allergies" -> "allergies_ack"
          [] OTHER -> "analyzing"
      \* the session as the branch of the state leaves it
      after(text) ==
        CASE state = "greeting" /\ text.name_match.end # 0 ->
               [session EXCEPT !.context = [name |-> Capitalize(text.name_match.cap)]]
          [] state = "analysis" ->
               [session EXCEPT !.recommendations = generate_recommendations(session.profile)]
          [] OTHER -> session
      products == Take(recommend_products(session.profile.concerns), 5)
      \* the fallback and the return, for the response and the session of the branch
      return(response, s) ==
        IF state = "analysis" /\ FormatRaises(session.profile)
        THEN [ raised |-> TRUE, response |-> None, products |-> << >>, session |-> s ]
        ELSE IF TooShort(response)
        THEN [ raised   |-> FALSE,
               response |-> _handle_general_input(s, message).response,
               products |-> products,
               session  |-> _handle_general_input(s, message).session ]
        ELSE [ raised |-> FALSE, response |-> response, products |-> products, session |-> s ]
      branch(text) == return(primary(text), after(text))
  IN  branch(TextFacts[message])

\* _generate_response: raised tells whether the call ended in an exception;
\* session is the session as the call left it.
_generate_response(session, message, entities) ==
  LET state == session.state
      \* the response the branch of the state builds
      primary(text) ==
        CASE state = "greeting" ->
               IF text.name_match.end # 0 THEN "greeting_named"
               ELSE IF text.greeting_pattern THEN "greeting_hello"
               ELSE "greeting_intro"
          [] state = "skin_type" ->
               IF entities.skin_type # << >> THEN "skin_type_ack" ELSE "skin_type_guide"
          [] state = "concerns" ->
               IF entities.concerns # << >> THEN "concerns_ack" ELSE "concerns_guide"
          [] state = "analysis" -> "recommendations"
          [] state = "age_range" ->
               IF text.age_found \/ text.age_word THEN "age_ack" ELSE "age_guide"
          [] state = "routine"   -> "routine_ack"
          [] state = "lifestyle" -> "lifestyle_ack"
          [] state = "budget"    -> "budget_ack"
          [] state = "allergies" -> "allergies_ack"
          [] OTHER -> "analyzing"
      \* the session as the branch of the state leaves it
      after(text) ==
        CASE state = "greeting" /\ text.name_match.end # 0 ->
               [session EXCEPT !.context = [name |-> Capitalize(text.name_match.cap)]]
          [] state = "analysis" ->
               [session EXCEPT !.recommendations = generate_recommendations(session.profile)]
          [] OTHER -> session
      products ==
        IF state = "analysis"
        THEN Take(recommend_products(session.profile.concerns), 5)
        ELSE << >>
      \* the fallback and the return, for the response and the session of the branch
      return(response, s) ==
        IF state = "analysis" /\ FormatRaises(session.profile)
        THEN [ raised |-> TRUE, response |-> None, products |-> << >>, session |-> s ]
        ELSE IF TooShort(response)
        THEN [ raised   |-> FALSE,
               response |-> _handle_general_input(s, message).response,
               products |-> products,
               session  |-> _handle_general_input(s, message).session ]
        ELSE [ raised |-> FALSE, response |-> response, products |-> products, session |-> s ]
      branch(text) == return(primary(text), after(text))
  IN  branch(TextFacts[message])

(***************************************************************************)
(* Session store and message pipeline                                      *)
(***************************************************************************)
\* str(uuid.uuid4()): the n-th identifier the process generates.  Every call
\* yields an identifier that was never generated or supplied before.
uuid4(n) == "uuid-" \o ToString(n)

\* get_or_create_session on the store `store` after `n` identifiers were minted.
get_or_create_session(store, n, session_id) ==
  IF Truthy(session_id) /\ session_id \in DOMAIN store
  THEN [ sessions |-> store, minted |-> n, session |-> store[session_id] ]
  ELSE LET new_session == ChatSession(uuid4(n + 1))
       IN  [ sessions |-> [id \in DOMAIN store \cup {new_session.session_id} |->
                             IF id = new_session.session_id THEN new_session ELSE store[id]],
             minted   |-> n + 1,
             session  |-> new_session ]

\* A variant of Stored that writes back a record holding the last exchange
\* alone, as a handler working on a copy made before the earlier turns would.
Stored_last_exchange(store, s) ==
  [id \in DOMAIN store |->
     IF id = s.session_id
     THEN [s EXCEPT !.messages =
             SubSeq(@, IF Len(@) > 2 THEN Len(@) - 1 ELSE 1, Len(@))]
     ELSE store[id]]

\* The store with the (mutated in place) session object s.
Stored(store, s) == [id \in DOMAIN store |-> IF id = s.session_id THEN s ELSE store[id]]

\* A variant of requires_image that looks at the message alone.
requires_image_any_state(state, message) == TextFacts[message].photo

\* The requires_image argument of the ChatResponse that process_message builds.
requires_image(state, message) == state = "analysis" /\ TextFacts[message].photo

\* A variant of process_message that updates the state before it generates
\* the response.
process_message_state_first(store, n, message, session_id) ==
  LET \* the user's ChatMessage, extract_entities, update_profile, _generate_response
      respond(session, entities) ==
        _generate_response(
          [session EXCEPT !.messages = Append(@, ChatMessage("user", message)),
                          !.profile = update_profile(@, entities),
                          !.state = _update_state(@, update_profile(session.profile, entities),
                                                  message)],
          message, entities)
      \* the assistant's ChatMessage, _is_profile_complete and
      \* the ChatResponse, gen being what _generate_response returned
      finish(got, gen) ==
        LET s3 == [gen.session EXCEPT
                     !.messages = Append(@, ChatMessage("assistant", gen.response))]
            s4 == s3
        IN  IF gen.raised
            THEN [ sessions |-> Stored(got.sessions, gen.session), minted |-> got.minted,
                   raised |-> TRUE, reply |-> << >> ]
            ELSE [ sessions |-> Stored(got.sessions, s4), minted |-> got.minted,
                   raised |-> FALSE,
                   reply |-> [ response         |-> gen.response,
                               session_id       |-> s3.session_id,
                               state            |-> s4.state,
                               products         |-> gen.products,
                               profile_complete |-> _is_profile_complete(s3.profile),
                               requires_image   |-> requires_image(s4.state, message) ] ]
      run(got) == finish(got, respond(got.session, TextFacts[message].entities))
  IN  run(get_or_create_session(store, n, session_id))

\* process_message: the store after the call and the ChatResponse, or
\* raised = TRUE when the call ended in an exception (the mutations made
\* before the exception stay, the session object being shared with the store).
process_message(store, n, message, session_id) ==
  LET \* the user's ChatMessage, extract_entities, update_profile, _generate_response
      respond(session, entities) ==
        _generate_response(
          [session EXCEPT !.messages = Append(@, ChatMessage("user", message)),
                          !.profile = update_profile(@, entities)],
          message, entities)
      \* the assistant's ChatMessage, _is_profile_complete, _update_state and
      \* the ChatResponse, gen being what _generate_response returned
      finish(got, gen) ==
        LET s3 == [gen.session EXCEPT
                     !.messages = Append(@, ChatMessage("assistant", gen.response))]
            s4 == [s3 EXCEPT !.state = _update_state(s3.state, s3.profile, message)]
        IN  IF gen.raised
            THEN [ sessions |-> Stored(got.sessions, gen.session), minted |-> got.minted,
                   raised |-> TRUE, reply |-> << >> ]
            ELSE [ sessions |-> Stored(got.sessions, s4), minted |-> got.minted,
                   raised |-> FALSE,
                   reply |-> [ response         |-> gen.response,
                               session_id       |-> s3.session_id,
                               state            |-> s4.state,
                               products         |-> gen.products,
                               profile_complete |-> _is_profile_complete(s3.profile),
                               requires_image   |-> requires_image(s4.state, message) ] ]
      run(got) == finish(got, respond(got.session, TextFacts[message].entities))
  IN  run(get_or_create_session(store, n, session_id))

(***************************************************************************)
(* State                                                                   *)
(***************************************************************************)
VARIABLES
  sessions,   \* chatbot.sessions: session identifier -> ChatSession
  minted,     \* number of identifiers uuid4() has produced
  pending,    \* the calls in flight: analyze_with_image calls suspended in
              \* `await save_upload_file`; in SpecRace, accepted chat requests
  request,    \* the request of the exchange that completed last
  response    \* its HTTP response

vars == << sessions, minted, pending, request, response >>

\* An HTTP response; body is << >> when the handler raised.
Reply(status, detail, body) == [status |-> status, detail |-> detail, body |-> body]

Init ==
  /\ sessions = [id \in {} |-> ChatSession(id)]
  /\ minted = 0
  /\ pending = << >>
  /\ request = [op |-> "none"]
  /\ response = Reply(0, None, << >>)

(***************************************************************************)
(* Endpoints                                                               *)
(***************************************************************************)
\* request.message or request.question or ""
TextOf(message, question) ==
  IF message # NoText /\ message # << >> THEN message
  ELSE IF question # NoText /\ question # << >> THEN question
  ELSE << >>

\* POST /chat.  The HTTPException(400) raised for an empty text is raised
\* inside the try block, whose `except Exception` turns every exception into
\* HTTPException(500, detail=str(e)).
chat(message, question, session_id) ==
  LET text == TextOf(message, question)
      answer(run) ==
        /\ sessions' = run.sessions
        /\ minted' = run.minted
        /\ response' = IF run.raised
                       THEN Reply(500, "'NoneType' object has no attribute 'capitalize'", << >>)
                       ELSE Reply(200, None, run.reply)
  IN  /\ request' = [op |-> "chat", message |-> message, question |-> question,
                     session_id |-> session_id]
      /\ IF text = << >>
         THEN /\ response' = Reply(500, "400: message is required", << >>)
              /\ UNCHANGED << sessions, minted >>
         ELSE answer(process_message(sessions, minted, text, session_id))
      /\ UNCHANGED pending

\* messages[-10:]
Last(seq, n) == SubSeq(seq, IF Len(seq) > n THEN Len(seq) - n + 1 ELSE 1, Len(seq))

\* A variant of get_session that answers an unknown identifier with a
\* session it creates for it.
get_session_creating(session_id) ==
  LET store == [id \in DOMAIN sessions \cup {session_id} |->
                  IF id \in DOMAIN sessions THEN sessions[id] ELSE ChatSession(id)]
  IN  /\ request' = [op |-> "get_session", session_id |-> session_id]
      /\ sessions' = store
      /\ response' =
           Reply(200, None,
                 [ session_id      |-> session_id,
                   state           |-> store[session_id].state,
                   profile         |-> store[session_id].profile,
                   messages        |-> Last(store[session_id].messages, 10),
                   recommendations |-> store[session_id].recommendations ])
      /\ UNCHANGED << minted, pending >>

\* GET /chat/session/{session_id}
get_session(session_id) ==
  /\ request' = [op |-> "get_session", session_id |-> session_id]
  /\ response' =
       IF session_id \notin DOMAIN sessions
       THEN Reply(404, "Session not found", << >>)
       ELSE Reply(200, None,
                  [ session_id      |-> session_id,
                    state           |-> sessions[session_id].state,
                    profile         |-> sessions[session_id].profile,
                    messages        |-> Last(sessions[session_id].messages, 10),
                    recommendations |-> sessions[session_id].recommendations ])
  /\ UNCHANGED << sessions, minted, pending >>

\* A variant of reset_session that empties the store when the session exists.
reset_session_clearing(session_id) ==
  /\ request' = [op |-> "reset_session", session_id |-> session_id]
  /\ sessions' = IF session_id \in DOMAIN sessions
                 THEN [id \in {} |-> ChatSession(id)]
                 ELSE sessions
  /\ response' = Reply(200, None, [message |-> "Session reset successfully"])
  /\ UNCHANGED << minted, pending >>

\* POST /chat/reset/{session_id}
reset_session(session_id) ==
  /\ request' = [op |-> "reset_session", session_id |-> session_id]
  /\ sessions' = [id \in DOMAIN sessions \ {session_id} |-> sessions[id]]
  /\ response' = Reply(200, None, [message |-> "Session reset successfully"])
  /\ UNCHANGED << minted, pending >>

\* GET /chat/export/{session_id}
export_routine(session_id) ==
  /\ request' = [op |-> "export_routine", session_id |-> session_id]
  /\ response' =
       IF session_id \notin DOMAIN sessions
       THEN Reply(404, "Session not found", << >>)
       ELSE Reply(200, None,
                  [ profile         |-> sessions[session_id].profile,
                    recommendations |-> sessions[session_id].recommendations,
                    products        |-> << >> ])
  /\ UNCHANGED << sessions, minted, pending >>

\* OptimizedSkinAnalyzer.analyze: the result for the arg-max skin type st_idx
\* and the concern indices idxs (never empty: the two highest scores are
\* taken when none exceeds the threshold), labels capitalized / title-cased.
AnalyzerSkinTypes == << "Normal", "Oily", "Dry", "Combination" >>

AnalyzerConcerns == << "Acne", "Wrinkles", "Dark Spots", "Redness", "Pores", "Sensitivity" >>

\* A variant of analyze whose result carries no skin type.
analyze_without_skin_type(st_idx, idxs) ==
  [ skin_type |-> None,
    concerns  |-> IF idxs = {} THEN {"General"}
                  ELSE {AnalyzerConcerns[i + 1] : i \in idxs} ]

analyze(st_idx, idxs) ==
  [ skin_type |-> AnalyzerSkinTypes[st_idx + 1],
    concerns  |-> IF idxs = {} THEN {"General"}
                  ELSE {AnalyzerConcerns[i + 1] : i \in idxs} ]

\* POST /chat/analyze-image, up to the suspension in `await save_upload_file`:
\* the existence check, then the call is parked.
analyze_with_image_begin(session_id) ==
  IF session_id \notin DOMAIN sessions
  THEN /\ request' = [op |-> "analyze_with_image", session_id |-> session_id]
       /\ response' = Reply(404, "Session not found", << >>)
       /\ UNCHANGED << sessions, minted, pending >>
  ELSE /\ pending' = Append(pending, session_id)
       /\ UNCHANGED << sessions, minted, request, response >>

\* A variant of analyze_with_image_end that moves the session to analysis
\* without writing the skin type of the scorer into the profile.
analyze_with_image_end_state_only(k, outcome) ==
  LET session_id == pending[k]
      results    == analyze(outcome.st_idx, outcome.idxs)
  IN  /\ pending' = SubSeq(pending, 1, k - 1) \o SubSeq(pending, k + 1, Len(pending))
      /\ request' = [op |-> "analyze_with_image", session_id |-> session_id]
      /\ IF outcome.kind = "save_failed"
         THEN /\ response' = Reply(400, "File must be an image", << >>)
              /\ UNCHANGED sessions
         ELSE IF outcome.kind = "scorer_failed"
         THEN /\ response' = Reply(500, "Internal Server Error", << >>)
              /\ UNCHANGED sessions
         ELSE IF session_id \notin DOMAIN sessions
         THEN /\ response' = Reply(500, "Internal Server Error", << >>)
              /\ UNCHANGED sessions
         ELSE /\ sessions' =
                   [sessions EXCEPT
                      ![session_id].profile.concerns =
                         IF results.concerns # {} THEN results.concerns ELSE @,
                      ![session_id].state = "analysis"]
              /\ response' = Reply(200, None, [analysis |-> results, session_id |-> session_id])
      /\ UNCHANGED minted

\* A variant of analyze_with_image_end that adds the scorer's concerns to the
\* ones the profile holds.
analyze_with_image_end_merging(k, outcome) ==
  LET session_id == pending[k]
      results    == analyze(outcome.st_idx, outcome.idxs)
  IN  /\ pending' = SubSeq(pending, 1, k - 1) \o SubSeq(pending, k + 1, Len(pending))
      /\ request' = [op |-> "analyze_with_image", session_id |-> session_id]
      /\ IF outcome.kind = "save_failed"
         THEN /\ response' = Reply(400, "File must be an image", << >>)
              /\ UNCHANGED sessions
         ELSE IF outcome.kind = "scorer_failed"
         THEN /\ response' = Reply(500, "Internal Server Error", << >>)
              /\ UNCHANGED sessions
         ELSE IF session_id \notin DOMAIN sessions
         THEN /\ response' = Reply(500, "Internal Server Error", << >>)
              /\ UNCHANGED sessions
         ELSE /\ sessions' =
                   [sessions EXCEPT
                      ![session_id].profile.skin_type = results.skin_type,
                      ![session_id].profile.concerns = @ \cup results.concerns,
                      ![session_id].state = "analysis"]
              /\ response' = Reply(200, None, [analysis |-> results, session_id |-> session_id])
      /\ UNCHANGED minted

\* POST /chat/analyze-image, from the resumption to the return.  outcome is
\* [kind |-> "save_failed"] (save_upload_file raised HTTPException(400)),
\* [kind |-> "scorer_failed"] (the analyzer raised) or [kind |-> "scored"]
\* with the scorer's arg-max st_idx and concern indices idxs.
analyze_with_image_end(k, outcome) ==
  LET session_id == pending[k]
      results    == analyze(outcome.st_idx, outcome.idxs)
  IN  /\ pending' = SubSeq(pending, 1, k - 1) \o SubSeq(pending, k + 1, Len(pending))
      /\ request' = [op |-> "analyze_with_image", session_id |-> session_id]
      /\ IF outcome.kind = "save_failed"
         THEN /\ response' = Reply(400, "File must be an image", << >>)
              /\ UNCHANGED sessions
         ELSE IF outcome.kind = "scorer_failed"
         THEN /\ response' = Reply(500, "Internal Server Error", << >>)
              /\ UNCHANGED sessions
         ELSE IF session_id \notin DOMAIN sessions
         THEN /\ response' = Reply(500, "Internal Server Error", << >>)
              /\ UNCHANGED sessions
         ELSE /\ sessions' =
                   [sessions EXCEPT
                      ![session_id].profile.skin_type = results.skin_type,
                      ![session_id].profile.concerns =
                         IF results.concerns # {} THEN results.concerns ELSE @,
                      ![session_id].state = "analysis"]
              /\ response' = Reply(200, None, [analysis |-> results, session_id |-> session_id])
      /\ UNCHANGED minted

(***************************************************************************)
(* Requests                                                                *)
(***************************************************************************)
\* The texts sent in the behaviours of Spec.
StoreMessages == { MsgHi, MsgOily, MsgOilyAcne, MsgPhoto }

\* The (message, question) fields of the chat requests: every text as the
\* message, an empty and a missing message, and the text in the legacy field.
ChatRequests ==
  { [message |-> m, question |-> NoText] : m \in StoreMessages \cup {<< >>, NoText} }
  \cup { [message |-> NoText, question |-> MsgHi] }

\* An identifier no session ever had.
UnknownId == "no-such-session"

MintedIds == { uuid4(k) : k \in 1..minted }

\* The session_id field of a chat request: missing, unknown or minted.
BodyIds == { None, UnknownId } \cup MintedIds

\* The session_id of a path or query parameter.
PathIds == { UnknownId } \cup MintedIds

\* What the upload and the scorer can do with one image.
ImageOutcomes ==
  { [kind |-> "save_failed", st_idx |-> 0, idxs |-> {}],
    [kind |-> "scorer_failed", st_idx |-> 0, idxs |-> {}],
    [kind |-> "scored", st_idx |-> 2, idxs |-> {1, 2}] }

(***************************************************************************)
(* Bounds and specifications                                               *)
(***************************************************************************)
\* Identifiers minted in one behaviour.
MaxSessions == 2

\* Entries in the message logs of the store, all sessions together (a chat
\* turn adds the user's and the assistant's entry).
MaxLog == 4

\* Image analyses in flight.
MaxPending == 1

\* Chat turns of the single conversation of SpecConv.
MaxConvTurns == 9

RECURSIVE TotalLog(_)
TotalLog(store) ==
  IF DOMAIN store = {} THEN 0
  ELSE LET id == CHOOSE id \in DOMAIN store : TRUE
       IN  Len(store[id].messages)
           + TotalLog([i \in DOMAIN store \ {id} |-> store[i]])

Bounded(maxLog) ==
  /\ minted <= MaxSessions
  /\ TotalLog(sessions) <= maxLog
  /\ Len(pending) <= MaxPending

Next ==
  \/ \E r \in ChatRequests, id \in BodyIds :
       chat(r.message, r.question, id) /\ Bounded(MaxLog)'
  \/ \E id \in PathIds : get_session(id)
  \/ \E id \in PathIds : reset_session(id)
  \/ \E id \in PathIds : export_routine(id)
  \/ \E id \in PathIds : analyze_with_image_begin(id) /\ Bounded(MaxLog)'
  \/ \E k \in 1..Len(pending), o \in ImageOutcomes : analyze_with_image_end(k, o)

Spec == Init /\ [][Next]_vars

\* One client holding one conversation: the first message carries no
\* identifier, every later one the identifier of the reply.
ConvMessages == { MsgHi, MsgStartOver, MsgDryAging45 }

NextConv ==
  \E m \in ConvMessages :
    chat(m, NoText, IF minted = 0 THEN None ELSE uuid4(minted)) /\ Bounded(2 * MaxConvTurns)'

SpecConv == Init /\ [][NextConv]_vars

\* The recommendation engine alone: request holds the profile handed to
\* generate_recommendations, response the routine it returns.
Profiles ==
  [ skin_type       : {None, "oily", "dry", "combination", "normal", "sensitive"},
    concerns        : SUBSET {"acne", "aging", "pigmentation", "pores"},
    age_range       : {None, "under_20", "20-30", "30-40", "40-50", "50+"},
    current_routine : {{}} ]

InitRec ==
  /\ sessions = [id \in {} |-> ChatSession(id)]
  /\ minted = 0
  /\ pending = << >>
  /\ request \in { [op |-> "generate_recommendations", profile |-> p] : p \in Profiles }
  /\ response = Reply(0, None, << >>)

NextRec ==
  /\ response.status = 0
  /\ response' = Reply(200, None, generate_recommendations(request.profile))
  /\ UNCHANGED << sessions, minted, pending, request >>

SpecRec == InitRec /\ [][NextRec]_vars

(***************************************************************************)
(* Properties                                                              *)
(***************************************************************************)
\* The ten conversation states in their fixed linear order.
StateOrder ==
  << "greeting", "skin_type", "concerns", "age_range", "routine", "lifestyle",
     "budget", "allergies", "analysis", "followup" >>

\* The position of a state in the order, 0 for a state outside it.
Rank(s) ==
  IF \E k \in 1..Len(StateOrder) : StateOrder[k] = s
  THEN CHOOSE k \in 1..Len(StateOrder) : StateOrder[k] = s
  ELSE 0

\* The single designated successor of a state of the order.
NextInOrder(s) == IF Rank(s) \in 1..(Len(StateOrder) - 1) THEN StateOrder[Rank(s) + 1] ELSE s

\* The exchange that completed last is a chat turn that returned a ChatResponse.
ChatDone == request.op = "chat" /\ response.status = 200

\* The text of the chat request that completed last.
ChatText == TextOf(request.message, request.question)

\* The state a chat turn found the session `id` in (a session it created starts in greeting).
StateBefore(id) == IF id \in DOMAIN sessions THEN sessions[id].state ELSE "greeting"

\* C1: a chat message without a reset phrase never moves a session to an
\* earlier state of the order greeting < skin_type < ... < followup.
C1_StateNeverRegresses ==
  [][ (ChatDone' /\ ~TextFacts[ChatText'].reset_word)
        => \A id \in DOMAIN sessions \cap DOMAIN sessions' :
             Rank(sessions'[id].state) >= Rank(sessions[id].state) ]_vars

\* C1 witness: a non-reset message has moved a session all the way to analysis.
C1_Witness ==
  /\ ChatDone
  /\ ~TextFacts[ChatText].reset_word
  /\ response.body.state = "analysis"
  /\ Len(sessions[response.body.session_id].messages) >= 16

\* C2 (as claimed): a chat message with a reset phrase leaves the session in
\* greeting with a fresh empty profile, the same identifier and the earlier
\* log as a prefix of the new one.
C2_ResetPhraseResets ==
  [][ (ChatDone' /\ TextFacts[ChatText'].reset_word)
        => \A id \in DOMAIN sessions :
             id = response'.body.session_id
               => /\ id \in DOMAIN sessions'
                  /\ sessions'[id].state = "greeting"
                  /\ sessions'[id].profile = SkinProfile
                  /\ sessions'[id].session_id = id
                  /\ SubSeq(sessions'[id].messages, 1, Len(sessions[id].messages))
                       = sessions[id].messages ]_vars

\* C3 (as claimed): the chat message processed while the state is analysis
\* returns the recommendation and leaves the session in followup.
C3_AnalysisAdvancesToFollowup ==
  [][ ChatDone'
        => \A id \in DOMAIN sessions :
             (id = response'.body.session_id /\ sessions[id].state = "analysis")
               => /\ response'.body.response = "recommendations"
                  /\ sessions'[id].state = "followup" ]_vars

\* C4 (as claimed): the step numbers of the morning routine are 1, 2, ..., n
\* in list order.
C4_MorningStepsContiguous ==
  (request.op = "generate_recommendations" /\ response.status = 200)
    => \A k \in 1..Len(response.body.morning_routine) :
         response.body.morning_routine[k].step = k

\* C5: a chat turn leaves every session in the state it was in or in the
\* single next state of the ten-state order, and in one of the ten states.
C5_OneStepAtATime ==
  [][ ChatDone'
        => \A id \in DOMAIN sessions' :
             /\ Rank(sessions'[id].state) # 0
             /\ sessions'[id].state \in {StateBefore(id), NextInOrder(StateBefore(id))} ]_vars

\* C5 witness: the message that fills the skin type and the concerns at
\* skin_type has moved the session to concerns only.
C5_Witness ==
  /\ ChatDone
  /\ ChatText = MsgDryAging45
  /\ response.body.state = "concerns"
  /\ response.body.profile_complete
  /\ Len(sessions[response.body.session_id].messages) = 4

\* C6: profile_complete of a chat response is true exactly when the stored
\* profile has a skin type and at least one concern.
C6_ProfileCompleteIff ==
  ChatDone
    => LET profile == sessions[response.body.session_id].profile
       IN  response.body.profile_complete
             <=> (profile.skin_type # None /\ profile.concerns # {})

\* C6 witness: profile_complete is true while the reported state is still skin_type.
C6_Witness ==
  ChatDone /\ response.body.profile_complete /\ response.body.state = "skin_type"

\* C7: requires_image of a chat response is true exactly when the reported
\* state is analysis and the message contains "photo" in any letter case.
C7_RequiresImageIff ==
  ChatDone
    => (response.body.requires_image
          <=> /\ response.body.state = "analysis"
              /\ \E i \in 1..Len(ChatText) :
                   /\ i + 4 <= Len(ChatText)
                   /\ << LowerChar(ChatText[i]), LowerChar(ChatText[i + 1]),
                         LowerChar(ChatText[i + 2]), LowerChar(ChatText[i + 3]),
                         LowerChar(ChatText[i + 4]) >> = << "p", "h", "o", "t", "o" >>)

\* C7 witness: a response with requires_image set, to the upper-case "PHOTO".
C7_Witness ==
  ChatDone /\ response.body.requires_image /\ ChatText = MsgPhoto

\* The exchange that completed last is an inspect or export request.
Lookup == request.op \in {"get_session", "export_routine"}

\* C8: inspect and export of an identifier that is not in the store answer
\* 404 and leave the store as it was.
C8_UnknownSessionNotFound ==
  [][ (Lookup' /\ request'.session_id \notin DOMAIN sessions)
        => (response'.status = 404 /\ sessions' = sessions) ]_vars

\* C8 witness: a 404 for an unknown identifier while the store holds a session.
C8_Witness ==
  /\ Lookup
  /\ request.session_id \notin DOMAIN sessions
  /\ response.status = 404
  /\ DOMAIN sessions # {}

\* C9 (as claimed): a chat turn that re-supplies an identifier the server
\* minted earlier is served by the session of that identifier.
C9_ResuppliedIdentifierKept ==
  (ChatDone /\ request.session_id \in MintedIds)
    => response.body.session_id = request.session_id

\* C10 (as claimed): a chat request without text is answered with a client
\* error (4xx) and changes no session.
C10_EmptyMessageClientError ==
  [][ (request'.op = "chat" /\ ChatText' = << >>)
        => (response'.status \in 400..499 /\ sessions' = sessions) ]_vars

\* An image analysis returns in this step.
AnalysisReturns == Len(pending') < Len(pending)

\* C11 (as claimed): an image analysis whose upload was accepted and whose
\* session is in the store returns a classification whatever the scorer
\* does: a failure of the scorer never ends the request in an error.
C11_ScorerFailureFallsBack ==
  [][ (/\ AnalysisReturns
       /\ request'.session_id \in DOMAIN sessions
       /\ response'.status # 400)
        => response'.status = 200 ]_vars

(***************************************************************************)
(* One conversation with image analyses                                    *)
(***************************************************************************)
\* analyze, the choice of the concern indices: those whose score exceeds the
\* threshold, or the two highest scores when none does.
concern_idxs(above, top2) == IF above = {} THEN top2 ELSE above

\* What the upload and the scorer can do with one image in SpecImg: a
\* rejected upload, a failing scorer, a classification with two concerns above
\* the threshold and one with none above it.
ImgOutcomes ==
  { [kind |-> "save_failed", st_idx |-> 0, idxs |-> {}],
    [kind |-> "scorer_failed", st_idx |-> 0, idxs |-> {}],
    [kind |-> "scored", st_idx |-> 2, idxs |-> concern_idxs({1, 2}, {2, 1})],
    [kind |-> "scored", st_idx |-> 1, idxs |-> concern_idxs({}, {0, 4})] }

ImgMessages == { MsgHi, MsgDryAging45 }

\* Chat turns of the conversation of SpecImg.
MaxImgTurns == 8

\* One client holding one conversation and sending images for it.
NextImg ==
  \/ \E m \in ImgMessages :
       chat(m, NoText, IF minted = 0 THEN None ELSE uuid4(minted))
         /\ Bounded(2 * MaxImgTurns)'
  \/ minted > 0 /\ analyze_with_image_begin(uuid4(minted)) /\ Bounded(2 * MaxImgTurns)'
  \/ \E k \in 1..Len(pending), o \in ImgOutcomes : analyze_with_image_end(k, o)

SpecImg == Init /\ [][NextImg]_vars

C13_ProfileOnlyGrows ==
  [][ \A id \in DOMAIN sessions \cap DOMAIN sessions' :
        LET old == sessions[id].profile
            new == sessions'[id].profile
        IN  /\ old.concerns \subseteq new.concerns
            /\ old.current_routine \subseteq new.current_routine
            /\ (old.skin_type # None /\ new.skin_type # old.skin_type)
                 => \/ ChatDone' /\ TextFacts[ChatText'].entities.skin_type # << >>
                    \/ AnalysisReturns /\ response'.status = 200 ]_vars

\* The closed vocabularies of the profile.
SkinTypeLabels == { "oily", "dry", "combination", "normal", "sensitive" }

ConcernLabels ==
  { "acne", "aging", "pigmentation", "pores", "redness", "dullness",
    "dark_circles", "texture" }

\* C14 (as claimed): every stored profile has no skin type or one of the five
\* labels, and concerns of the closed vocabulary only.
C14_ProfileInVocabulary ==
  \A id \in DOMAIN sessions :
    /\ sessions[id].profile.skin_type \in {None} \cup SkinTypeLabels
    /\ sessions[id].profile.concerns \subseteq ConcernLabels

(***************************************************************************)
(* Profile accumulation alone                                              *)
(***************************************************************************)
\* The profiles and the entity mappings handed to update_profile in SpecProf:
\* request holds both, response the profile after one call and after two.
ProfProfiles ==
  [ skin_type       : {None, "oily", "Dry"},
    concerns        : SUBSET {"acne", "aging"},
    age_range       : {None, "20-30"},
    current_routine : SUBSET {"serum"} ]

ProfEntities ==
  [ skin_type  : {<< >>, << "dry" >>, << "oily", "sensitive" >>},
    concerns   : {<< >>, << "acne" >>, << "aging", "pores" >>},
    products   : {<< >>, << "serum", "toner" >>},
    age        : {<< >>, << << "4", "5" >> >>, << << "7" >>, << "6", "0" >> >>},
    age_under  : {<< >>},
    age_range  : {<< >>, << << << "3", "0" >>, << "4", "0" >> >> >>},
    age_decade : {<< >>} ]

InitProf ==
  /\ sessions = [id \in {} |-> ChatSession(id)]
  /\ minted = 0
  /\ pending = << >>
  /\ request \in { [op |-> "update_profile", profile |-> p, entities |-> e] :
                     p \in ProfProfiles, e \in ProfEntities }
  /\ response = Reply(0, None, << >>)

NextProf ==
  /\ response.status = 0
  /\ response' =
       Reply(200, None,
             [ once  |-> update_profile(request.profile, request.entities),
               twice |-> update_profile(update_profile(request.profile, request.entities),
                                        request.entities) ])
  /\ UNCHANGED << sessions, minted, pending, request >>

SpecProf == InitProf /\ [][NextProf]_vars

\* C15: update_profile applied twice with the same entity mapping gives the
\* profile it gives applied once.
C15_UpdateProfileIdempotent ==
  (request.op = "update_profile" /\ response.status = 200)
    => response.body.twice = response.body.once

\* C15 witness: a mapping that changed the skin type, the concerns, the
\* routine and the age range of the profile it was applied to.
C15_Witness ==
  /\ request.op = "update_profile"
  /\ response.status = 200
  /\ request.profile.skin_type = "oily"
  /\ response.body.once.skin_type = "dry"
  /\ request.profile.concerns = {"acne"}
  /\ response.body.once.concerns = {"acne", "aging", "pores"}
  /\ response.body.once.current_routine = {"serum", "toner"}
  /\ request.profile.age_range = "20-30"
  /\ response.body.once.age_range = "40-50"

\* The profile of the dry skin, ageing, 40-50 scenario.
DryAgingProfile ==
  [ skin_type |-> "dry", concerns |-> {"aging"}, age_range |-> "40-50",
    current_routine |-> {} ]

\* C16: for skin_type "dry", concerns {"aging"} and age_range "40-50",
\* generate_recommendations gives a morning routine of exactly four steps, in
\* the order cream cleanser, vitamin C serum, hydrating cream moisturizer,
\* sunscreen, and a non-empty evening routine with a retinol step.
C16_DryAgingScenario ==
  (/\ request.op = "generate_recommendations"
   /\ request.profile = DryAgingProfile
   /\ response.status = 200)
    => LET morning == response.body.morning_routine
           evening == response.body.evening_routine
       IN  /\ Len(morning) = 4
           /\ [k \in 1..4 |-> morning[k].product_type]
                = << "Cleanser", "Serum", "Moisturizer", "Sunscreen" >>
           /\ [k \in 1..4 |-> morning[k].recommendation]
                = << "Cream or milk cleanser", "Vitamin C serum", "Hydrating cream",
                     "Broad spectrum SPF 30+" >>
           /\ evening # << >>
           /\ \E k \in 1..Len(evening) : evening[k].product_type = "Retinol"

\* C16 witness: the recommendations for that profile have been generated.
C16_Witness ==
  /\ request.op = "generate_recommendations"
  /\ request.profile = DryAgingProfile
  /\ response.status = 200
  /\ Len(response.body.morning_routine) = 4
  /\ Len(response.body.evening_routine) = 1

\* The number of characters a response is known to have: that of its literal
\* text, and none for the empty string.
RenderedLen(text) ==
  IF text \in DOMAIN ResponseLiteralLen THEN ResponseLiteralLen[text] ELSE 0

\* C17: the response text of every completed chat turn is non-empty, whatever
\* the state of the session and the message.
C17_ResponseNeverEmpty ==
  ChatDone => /\ response.body.response # ""
              /\ RenderedLen(response.body.response) > 0

\* C17 witness: a conversation that went through every state up to analysis
\* and was answered there with the formatted recommendations.
C17_Witness ==
  /\ ChatDone
  /\ response.body.response = "recommendations"
  /\ response.body.state = "analysis"
  /\ Len(sessions[response.body.session_id].messages) = 18
  /\ sessions[response.body.session_id].messages[16].content = "allergies_ack"

\* C18: a chat response carries at most five catalog products, and it carries
\* any only when the turn found its session in the state analysis; every other
\* turn returns an empty product list.
C18_ProductsOnlyInAnalysis ==
  [][ ChatDone'
        => /\ Len(response'.body.products) <= 5
           /\ StateBefore(response'.body.session_id) # "analysis"
                => response'.body.products = << >> ]_vars

\* C18 witness: a turn processed in analysis returned the catalog's products
\* after earlier turns of the same session returned none.
C18_Witness ==
  /\ ChatDone
  /\ response.body.state = "analysis"
  /\ response.body.response = "recommendations"
  /\ response.body.products = recommend_products(sessions[response.body.session_id].profile.concerns)
  /\ response.body.products # << >>

(***************************************************************************)
(* Entity extraction alone                                                 *)
(***************************************************************************)
\* The words the utterances of SpecExt are made of: two synonyms of oily, two
\* of dry, a word that holds a synonym of sensitive inside it, and a word
\* that names no skin type.
ExtWords ==
  { <<"o","i","l","y">>,
    <<"G","r","e","a","s","y">>,
    <<"d","r","y">>,
    <<"t","i","g","h","t">>,
    <<"R","e","d","n","e","s","s">>,
    <<"s","k","i","n">> }

\* The longest utterance, in words.
MaxWords == 3

\* " ".join(words)
RECURSIVE Join(_)
Join(words) ==
  IF Len(words) = 1 THEN words[1] ELSE words[1] \o << " " >> \o Join(Tail(words))

Utterances == { Join(ws) : ws \in UNION { [1..n -> ExtWords] : n \in 1..MaxWords } }

\* request holds the utterance handed to extract_entities, response the
\* mapping it returns.
InitExt ==
  /\ sessions = [id \in {} |-> ChatSession(id)]
  /\ minted = 0
  /\ pending = << >>
  /\ request \in { [op |-> "extract_entities", text |-> t] : t \in Utterances }
  /\ response = Reply(0, None, << >>)

NextExt ==
  /\ response.status = 0
  /\ response' = Reply(200, None, extract_entities(request.text))
  /\ UNCHANGED << sessions, minted, pending, request >>

SpecExt == InitExt /\ [][NextExt]_vars

\* The number of times x occurs in seq.
Count(seq, x) == Cardinality({ k \in 1..Len(seq) : seq[k] = x })

\* The utterance holds a synonym of the skin type `label`, in any letter case.
Mentions(text, label) ==
  \E k \in 1..Len(SkinTypePatterns) :
    /\ SkinTypePatterns[k].label = label
    /\ \E j \in 1..Len(SkinTypePatterns[k].patterns) :
         Contains(SkinTypePatterns[k].patterns[j], ToLower(text))

\* C19: the skin_type list extract_entities returns holds each canonical
\* label exactly once when the utterance holds a synonym of it, however many
\* times and through however many synonyms, and holds nothing else.
C19_SkinTypeLabelOnce ==
  (request.op = "extract_entities" /\ response.status = 200)
    => /\ Range(response.body.skin_type) \subseteq SkinTypeLabels
       /\ \A label \in SkinTypeLabels :
            Count(response.body.skin_type, label)
              = IF Mentions(request.text, label) THEN 1 ELSE 0

\* C19 witness: an utterance naming oily skin through two synonyms and dry
\* skin through one.
C19_Witness ==
  /\ request.op = "extract_entities"
  /\ request.text = Join(<< <<"o","i","l","y">>, <<"G","r","e","a","s","y">>, <<"d","r","y">> >>)
  /\ response.status = 200
  /\ response.body.skin_type = << "oily", "dry" >>

(***************************************************************************)
(* Chat requests in flight together                                        *)
(***************************************************************************)
\* `chat` is a coroutine without an await, and process_message is an ordinary
\* function: once the event loop starts the handler of a request it runs to
\* its return before the handler of any other request starts.  In SpecRace
\* pending holds the chat requests the server has accepted and whose handler
\* has not run yet; the loop may take them in any order.
RaceMessages == { MsgOilyAcne, MsgDryAging45 }

\* The most chat requests in flight at a time, and the most turns of a session.
MaxInFlight == 2
MaxRaceTurns == 6

\* A chat request is accepted.
chat_accept(message, session_id) ==
  /\ Len(pending) < MaxInFlight
  /\ pending' = Append(pending, [message |-> message, session_id |-> session_id])
  /\ UNCHANGED << sessions, minted, request, response >>

\* The handler of the k-th accepted request runs, from entry to return.
chat_run(k) ==
  LET call == pending[k]
      answer(run) ==
        /\ sessions' = run.sessions
        /\ minted' = run.minted
        /\ response' = IF run.raised
                       THEN Reply(500, "'NoneType' object has no attribute 'capitalize'", << >>)
                       ELSE Reply(200, None, run.reply)
  IN  /\ pending' = SubSeq(pending, 1, k - 1) \o SubSeq(pending, k + 1, Len(pending))
      /\ request' = [op |-> "chat", message |-> call.message, question |-> NoText,
                     session_id |-> call.session_id]
      /\ answer(process_message(sessions, minted, call.message, call.session_id))

NextRace ==
  \/ minted = 0 /\ chat(MsgHi, NoText, None)
  \/ \E m \in RaceMessages :
       /\ minted = 1
       /\ TotalLog(sessions) + 2 * Len(pending) < 2 * MaxRaceTurns
       /\ chat_accept(m, uuid4(1))
  \/ \E k \in 1..Len(pending) : chat_run(k)

SpecRace == Init /\ [][NextRace]_vars

\* The handler of an accepted chat request returns in this step.
ChatReturns == Len(pending') < Len(pending)

\* C20: whatever the order in which the handlers of chat requests in flight
\* for one session run, each finds the record the one before left and adds to
\* it: the log keeps every entry it had and gains the user message and the
\* reply, the profile is the old one updated with the entities of the
\* message, and no other session changes.
C20_NoLostUpdate ==
  [][ (ChatReturns /\ request'.session_id \in DOMAIN sessions)
        => LET id   == request'.session_id
               text == request'.message
           IN  /\ response'.status = 200
               /\ sessions'[id].messages =
                    sessions[id].messages
                      \o << ChatMessage("user", text),
                            ChatMessage("assistant", response'.body.response) >>
               /\ sessions'[id].profile =
                    update_profile(sessions[id].profile, extract_entities(text))
               /\ \A other \in DOMAIN sessions \ {id} : sessions'[other] = sessions[other] ]_vars

\* C20 witness: two requests for one session have both been served; the log
\* holds both user messages and both replies, and the profile the skin type,
\* the age and the concerns of both.
C20_Witness ==
  /\ pending = << >>
  /\ request.op = "chat"
  /\ response.status = 200
  /\ Len(sessions[uuid4(1)].messages) = 6
  /\ sessions[uuid4(1)].messages[3] = ChatMessage("user", MsgDryAging45)
  /\ sessions[uuid4(1)].messages[4].role = "assistant"
  /\ sessions[uuid4(1)].messages[5] = ChatMessage("user", MsgOilyAcne)
  /\ sessions[uuid4(1)].messages[6] = ChatMessage("assistant", response.body.response)
  /\ sessions[uuid4(1)].profile.concerns = {"acne", "pores", "aging"}
  /\ sessions[uuid4(1)].profile.age_range = "40-50"
  /\ sessions[uuid4(1)].profile.skin_type = "oily"

(***************************************************************************)
(* One conversation with short and blank messages                          *)
(***************************************************************************)
\* One client whose messages are a full description, the two letters "a b"
\* and a single space.
AdvMessages == { MsgDryAging45, MsgAB, MsgBlank }

\* The most turns of the conversation of SpecAdv.
MaxAdvTurns == 10

NextAdv ==
  \E m \in AdvMessages :
    chat(m, NoText, IF minted = 0 THEN None ELSE uuid4(minted)) /\ Bounded(2 * MaxAdvTurns)'

SpecAdv == Init /\ [][NextAdv]_vars

\* The number of characters of t that are not whitespace.
RECURSIVE NonSpaceLen(_)
NonSpaceLen(t) ==
  IF t = << >> THEN 0 ELSE (IF IsSpace(Head(t)) THEN 0 ELSE 1) + NonSpaceLen(Tail(t))

\* C21 (as claimed): in the states routine, lifestyle and budget a message
\* advances the session to the next state exactly when it holds more than two
\* characters that are not whitespace.
C21_AdvanceOnThreeNonSpace ==
  [][ (ChatDone' /\ StateBefore(response'.body.session_id) \in {"routine", "lifestyle", "budget"})
        => LET before == StateBefore(response'.body.session_id)
           IN  /\ response'.body.state \in {before, NextInOrder(before)}
               /\ (response'.body.state = NextInOrder(before))
                    <=> (NonSpaceLen(ChatText') > 2) ]_vars

\* C22 (as claimed): in the states greeting and allergies every non-empty
\* message advances the session to the next state, a message of whitespace
\* included.
C22_AdvanceOnNonEmpty ==
  [][ (/\ ChatDone'
       /\ StateBefore(response'.body.session_id) \in {"greeting", "allergies"}
       /\ Len(ChatText') > 0)
        => response'.body.state = NextInOrder(StateBefore(response'.body.session_id)) ]_vars

\* The number of turns of a session that generate_recommendations ran for:
\* the replies of its log that are the formatted recommendations.
RecommendationRuns(session) ==
  Cardinality({ k \in 1..Len(session.messages) :
                  session.messages[k] = ChatMessage("assistant", "recommendations") })

\* C23 (as claimed): after its arrival at analysis, and as long as it is not
\* reset, a session has the recommendation computed for one chat message
\* only, however many messages follow.
C23_RecommendationComputedOnce ==
  \A id \in DOMAIN sessions : RecommendationRuns(sessions[id]) <= 1

(***************************************************************************)
(* The age bracket alone                                                   *)
(***************************************************************************)
\* Every string the groups (\d{1,2}) of the two age patterns can capture.
AgeTexts ==
  { << DigitChars[a + 1] >> : a \in 0..9 }
    \cup { << DigitChars[a + 1], DigitChars[b + 1] >> : a \in 0..9, b \in 0..9 }

\* The profiles and the entity mappings of SpecAge: an age, or none, with and
\* without matches of the other three age patterns.
AgeProfiles ==
  [ skin_type       : {None},
    concerns        : {{}},
    age_range       : {None, "20-30", "50+"},
    current_routine : {{}} ]

AgeEntities ==
  [ skin_type  : {<< >>},
    concerns   : {<< >>},
    products   : {<< >>},
    age        : {<< >>} \cup { << a >> : a \in AgeTexts },
    age_under  : {<< >>, << << "2", "0" >> >>},
    age_range  : {<< >>, << << << "3", "0" >>, << "4", "0" >> >> >>},
    age_decade : {<< >>, << << "3", "0" >> >>} ]

InitAge ==
  /\ sessions = [id \in {} |-> ChatSession(id)]
  /\ minted = 0
  /\ pending = << >>
  /\ request \in { [op |-> "update_profile", profile |-> p, entities |-> e] :
                     p \in AgeProfiles, e \in AgeEntities }
  /\ response = Reply(0, None, << >>)

SpecAge == InitAge /\ [][NextProf]_vars

\* C24: with a numeric age n in the mapping update_profile sets age_range to
\* under_20 for n < 20, 20-30 for 20 <= n < 30, 30-40 for 30 <= n < 40, 40-50
\* for 40 <= n < 50 and 50+ otherwise, whatever it was before; a mapping with
\* matches of the range, decade or under patterns only leaves it as it was.
C24_AgeBracket ==
  (request.op = "update_profile" /\ response.status = 200)
    => LET got == response.body.once.age_range
       IN  IF request.entities.age = << >>
           THEN got = request.profile.age_range
           ELSE LET ds == request.entities.age[1]
                    n  == IF Len(ds) = 1 THEN DigitVal(ds[1])
                          ELSE 10 * DigitVal(ds[1]) + DigitVal(ds[2])
                IN  /\ n < 20 => got = "under_20"
                    /\ (20 <= n /\ n < 30) => got = "20-30"
                    /\ (30 <= n /\ n < 40) => got = "30-40"
                    /\ (40 <= n /\ n < 50) => got = "40-50"
                    /\ 50 <= n => got = "50+"

\* C24 witness: the age 40, on the boundary of two brackets, replaced the
\* bracket 20-30 of the profile.
C24_Witness ==
  /\ request.op = "update_profile"
  /\ response.status = 200
  /\ request.entities.age = << << "4", "0" >> >>
  /\ request.entities.age_range # << >>
  /\ request.profile.age_range = "20-30"
  /\ response.body.once.age_range = "40-50"

\* C25 (as claimed): the evening routine is empty unless age_range is 30-40,
\* 40-50 or 50+, and the steps of a non-empty evening routine are numbered
\* 1, 2, ... in order, so that its retinol step is step 1.
C25_EveningStepsContiguous ==
  (request.op = "generate_recommendations" /\ response.status = 200)
    => LET evening == response.body.evening_routine
       IN  /\ request.profile.age_range \notin {"30-40", "40-50", "50+"} => evening = << >>
           /\ \A k \in 1..Len(evening) : evening[k].step = k

\* C26: a session in the state analysis has a skin type, whatever chat
\* messages and image analyses brought it there, so that the recommendation
\* can be rendered for its next chat message.
C26_AnalysisHasSkinType ==
  \A id \in DOMAIN sessions :
    sessions[id].state = "analysis"
      => /\ sessions[id].profile.skin_type # None
         /\ ~FormatRaises(sessions[id].profile)

\* C26 witness: a session that had said nothing of its skin was brought to
\* analysis by an image analysis, and its next chat message was answered with
\* the rendered recommendation.
C26_Witness ==
  /\ ChatDone
  /\ response.body.response = "recommendations"
  /\ Len(sessions[response.body.session_id].messages) = 4
  /\ sessions[response.body.session_id].messages[1].content = MsgHi
  /\ sessions[response.body.session_id].messages[3].content = MsgHi
  /\ sessions[response.body.session_id].state = "analysis"
  /\ sessions[response.body.session_id].profile.skin_type \in Range(AnalyzerSkinTypes)

\* C27: the chat turn that takes a session from allergies to analysis returns
\* the acknowledgement of the allergies state and no products, and leaves the
\* stored recommendation empty; a recommendation is returned or stored only
\* by a turn that found the session in analysis already.
C27_RecommendationOneTurnLater ==
  [][ ChatDone'
        => LET id     == response'.body.session_id
               before == StateBefore(id)
           IN  /\ (before = "allergies" /\ response'.body.state = "analysis")
                    => /\ response'.body.response = "allergies_ack"
                       /\ response'.body.products = << >>
                       /\ sessions'[id].recommendations = << >>
               /\ (\/ response'.body.response = "recommendations"
                   \/ sessions'[id].recommendations # << >>)
                    => before = "analysis" ]_vars

\* C27 witness: the turn that arrived at analysis was answered with the
\* acknowledgement, without products and without a stored recommendation.
C27_Witness ==
  /\ ChatDone
  /\ response.body.state = "analysis"
  /\ response.body.response = "allergies_ack"
  /\ response.body.products = << >>
  /\ sessions[response.body.session_id].state = "analysis"
  /\ sessions[response.body.session_id].recommendations = << >>

\* The log is user, assistant, user, assistant, ...: even length, a user
\* entry at every odd position and an assistant entry at every even one.
Alternates(log) ==
  /\ Len(log) % 2 = 0
  /\ \A k \in 1..Len(log) : log[k].role = IF k % 2 = 1 THEN "user" ELSE "assistant"

\* A chat request is answered in this step.
ChatStep == request'.op = "chat" /\ pending' = pending

\* C28: between requests the message log of every session alternates user,
\* assistant, ... from a user entry and has even length; a chat request adds
\* its user message and its reply to one log, or adds nothing, and one that
\* ends in an error adds nothing.
C28_LogAlternates ==
  /\ [](\A id \in DOMAIN sessions : Alternates(sessions[id].messages))
  /\ [][ ChatStep
           => /\ \A id \in DOMAIN sessions' :
                   LET old == IF id \in DOMAIN sessions THEN sessions[id].messages ELSE << >>
                       new == sessions'[id].messages
                   IN  \/ new = old
                       \/ /\ response'.status = 200
                          /\ id = response'.body.session_id
                          /\ new = old \o << ChatMessage("user", ChatText'),
                                             ChatMessage("assistant", response'.body.response) >>
              /\ response'.status # 200 => sessions' = sessions ]_vars

\* C28 witness: a chat request that ended in an error, sent to a session whose
\* log holds two exchanges.
C28_Witness ==
  /\ request.op = "chat"
  /\ response.status = 500
  /\ request.session_id \in DOMAIN sessions
  /\ Len(sessions[request.session_id].messages) = 4
  /\ Alternates(sessions[request.session_id].messages)

\* The session identifier the request answered in this step worked on: the
\* one of the reply for a chat turn, the one of the path or query otherwise.
Target ==
  IF request'.op = "chat"
  THEN (IF response'.status = 200 THEN response'.body.session_id ELSE request'.session_id)
  ELSE request'.session_id

\* C29: a chat message, a reset or an image analysis for one session
\* identifier leaves the record of every other session as it was, and a step
\* that creates a session leaves every record that was in the store in place.
C29_OtherSessionsUntouched ==
  [][ /\ \A id \in DOMAIN sessions \ {Target} :
           id \in DOMAIN sessions' /\ sessions'[id] = sessions[id]
      /\ (DOMAIN sessions' \ DOMAIN sessions # {})
           => \A id \in DOMAIN sessions :
                id \in DOMAIN sessions' /\ sessions'[id] = sessions[id] ]_vars

\* C29 witness: the first of two sessions was reset and the second, with the
\* exchange it had, is still in the store.
C29_Witness ==
  /\ request = [op |-> "reset_session", session_id |-> uuid4(1)]
  /\ response.status = 200
  /\ DOMAIN sessions = {uuid4(2)}
  /\ Len(sessions[uuid4(2)].messages) = 2
  /\ sessions[uuid4(2)].state = "skin_type"

(***************************************************************************)
(* Image analysis against reset                                            *)
(***************************************************************************)
\* Clients that chat, upload images that are saved and scored without
\* failure, and reset their sessions, an upload included that is still being
\* saved when the reset arrives.
ScoredOutcomes == { o \in ImgOutcomes : o.kind = "scored" }

NextReset ==
  \/ \E m \in ImgMessages, id \in {None} \cup MintedIds :
       chat(m, NoText, id) /\ Bounded(MaxLog)'
  \/ \E id \in MintedIds : analyze_with_image_begin(id) /\ Bounded(MaxLog)'
  \/ \E id \in MintedIds : reset_session(id)
  \/ \E k \in 1..Len(pending), o \in ScoredOutcomes : analyze_with_image_end(k, o)

SpecReset == Init /\ [][NextReset]_vars

\* C30 (as claimed): an image analysis of a session that existed when the
\* request started, with an upload that is saved and scored, either answers
\* not-found and changes nothing or answers with the analysis and leaves the
\* session stored in the state analysis, whenever a reset of the session runs.
C30_AnalysisSurvivesReset ==
  [][ AnalysisReturns
        => \/ response'.status = 404 /\ sessions' = sessions
           \/ /\ response'.status = 200
              /\ request'.session_id \in DOMAIN sessions'
              /\ sessions'[request'.session_id].state = "analysis" ]_vars
====
